---- MODULE Spec2Model ----
(***************************************************************************)
(* AI College Recommender (src/main.py): the three simulated tools         *)
(* get_college_data, search_scholarships and validate_input, the           *)
(* dispatcher call_tool, and the chat turn handler with its Reset button.  *)
(*                                                                         *)
(* Python strings that the code lower-cases or searches are sequences of   *)
(* one-character strings, so that str.lower() and the substring operator   *)
(* `in` are computed rather than assumed.  An optional argument is a       *)
(* sequence of length 0 (None) or 1 (the value).  The Gemini service is    *)
(* outside the repository: each of its replies is a nondeterministic       *)
(* choice between raising, a text part, a function_call part and a reply   *)
(* whose text cannot be extracted.                                         *)
(***************************************************************************)
EXTENDS Integers, Sequences, FiniteSets, TLC

VARIABLES
  chat_history,      \* st.session_state.chat_history: sequence of messages
  chat_history_ref,  \* identity of the list object bound to chat_history
  chat_session,      \* st.session_state.chat_session: [id, history]
  next_obj,          \* next unused object identity
  pc,                \* position of the script inside the turn handler
  function_call,     \* response.parts[0].function_call of the current turn
  tool_output,       \* value returned by call_tool in the current turn
  raised,            \* the exception caught by the turn's except clause
  sends,             \* send_message calls made in the current turn
  dispatches,        \* call_tool calls made in the current turn
  send_session,      \* id of the session that received the latest send
  turn_start,        \* Len(chat_history) when the current turn began
  turns,             \* user turns taken so far
  resets             \* Reset Chat clicks so far

vars == <<chat_history, chat_history_ref, chat_session, next_obj, pc,
          function_call, tool_output, raised, sends, dispatches,
          send_session, turn_start, turns, resets>>

\* ------------------------------------------------------------------ bounds
MaxTurns == 2
MaxResets == 1

\* ------------------------------------------------------- Python primitives
None == <<>>
Some(v) == <<v>>

\* bool(x) of an optional string or list: None and the empty value are falsy
truthy(opt) == opt # None /\ Len(opt[1]) > 0

UpperCase ==
  <<"A","B","C","D","E","F","G","H","I","J","K","L","M",
    "N","O","P","Q","R","S","T","U","V","W","X","Y","Z">>

LowerCase ==
  <<"a","b","c","d","e","f","g","h","i","j","k","l","m",
    "n","o","p","q","r","s","t","u","v","w","x","y","z">>

lower_char(c) ==
  IF \E i \in DOMAIN UpperCase : UpperCase[i] = c
  THEN LowerCase[CHOOSE i \in DOMAIN UpperCase : UpperCase[i] = c]
  ELSE c

\* str.lower()
lower(s) == [i \in 1..Len(s) |-> lower_char(s[i])]

\* `sub in s` on two strings: sub occurs as a contiguous run of s
str_in(sub, s) ==
  \E i \in 0..(Len(s) - Len(sub)) : SubSeq(s, i + 1, i + Len(sub)) = sub

\* `x in l` on a list: some element equals x
list_in(x, l) == \E i \in DOMAIN l : l[i] = x

\* l[:n]
slice_to(l, n) == SubSeq(l, 1, IF Len(l) < n THEN Len(l) ELSE n)

\* ------------------------------------------------------------- mock data
colleges ==
  <<
     [name |-> "Tech University",
      major |-> <<"C","o","m","p","u","t","e","r"," ","S","c","i","e","n","c","e">>,
      rank |-> 5,
      location |-> <<"C","a","l","i","f","o","r","n","i","a",","," ","U","S","A">>,
      scholarships |-> <<"Merit Scholarship", "Research Grant">>,
      notes |-> "Strong in AI and ML. High research output.",
      min_gpa |-> "3.8",
      skills_preferred |-> << <<"c","o","d","i","n","g">>, <<"a","l","g","o","r","i","t","h","m","s">> >>],
     [name |-> "Global Business School",
      major |-> <<"B","u","s","i","n","e","s","s">>,
      rank |-> 12,
      location |-> <<"N","e","w"," ","Y","o","r","k",","," ","U","S","A">>,
      scholarships |-> <<"Dean's Scholarship", "Diversity Scholarship">>,
      notes |-> "Excellent MBA program. Strong industry connections.",
      min_gpa |-> "3.5",
      skills_preferred |-> << <<"l","e","a","d","e","r","s","h","i","p">>, <<"f","i","n","a","n","c","e">> >>],
     [name |-> "Arts Institute",
      major |-> <<"F","i","n","e"," ","A","r","t","s">>,
      rank |-> 8,
      location |-> <<"L","o","n","d","o","n",","," ","U","K">>,
      scholarships |-> <<"Creative Arts Award">>,
      notes |-> "Renowned for painting and sculpture.",
      min_gpa |-> "3.0",
      skills_preferred |-> << <<"d","r","a","w","i","n","g">>, <<"p","a","i","n","t","i","n","g">> >>],
     [name |-> "National Engineering College",
      major |-> <<"M","e","c","h","a","n","i","c","a","l"," ","E","n","g","i","n","e","e","r","i","n","g">>,
      rank |-> 25,
      location |-> <<"H","y","d","e","r","a","b","a","d",","," ","I","n","d","i","a">>,
      scholarships |-> <<"State Aid", "Innovation Fund">>,
      notes |-> "Hands-on projects, good industry ties in India.",
      min_gpa |-> "3.2",
      skills_preferred |-> << <<"r","o","b","o","t","i","c","s">>, <<"C","A","D">> >>],
     [name |-> "Green Earth University",
      major |-> <<"E","n","v","i","r","o","n","m","e","n","t","a","l"," ","S","c","i","e","n","c","e">>,
      rank |-> 30,
      location |-> <<"O","r","e","g","o","n",","," ","U","S","A">>,
      scholarships |-> <<"Sustainability Grant">>,
      notes |-> "Focus on renewable energy and conservation.",
      min_gpa |-> "3.3",
      skills_preferred |-> << <<"r","e","s","e","a","r","c","h">>, <<"e","n","v","i","r","o","n","m","e","n","t","a","l"," ","a","n","a","l","y","s","i","s">> >>],
     [name |-> "City Medical School",
      major |-> <<"M","e","d","i","c","i","n","e">>,
      rank |-> 3,
      location |-> <<"B","o","s","t","o","n",","," ","U","S","A">>,
      scholarships |-> <<"Medical Research Fellowship">>,
      notes |-> "Highly competitive, excellent hospital affiliations.",
      min_gpa |-> "3.9",
      skills_preferred |-> << <<"b","i","o","l","o","g","y">>, <<"c","h","e","m","i","s","t","r","y">>, <<"r","e","s","e","a","r","c","h">> >>],
     [name |-> "Elite Tech Institute",
      major |-> <<"C","o","m","p","u","t","e","r"," ","S","c","i","e","n","c","e">>,
      rank |-> 2,
      location |-> <<"C","a","l","i","f","o","r","n","i","a",","," ","U","S","A">>,
      scholarships |-> <<"Presidential Scholarship", "Engineering Grant">>,
      notes |-> "World-leading in AI and data science. Very competitive.",
      min_gpa |-> "4.0",
      skills_preferred |-> << <<"c","o","d","i","n","g">>, <<"d","a","t","a"," ","s","t","r","u","c","t","u","r","e","s">>, <<"m","a","c","h","i","n","e"," ","l","e","a","r","n","i","n","g">> >>],
     [name |-> "Global Business School",
      major |-> <<"E","c","o","n","o","m","i","c","s">>,
      rank |-> 10,
      location |-> <<"N","e","w"," ","Y","o","r","k",","," ","U","S","A">>,
      scholarships |-> <<"Fellowship for Global Studies">>,
      notes |-> "Strong quantitative economics program.",
      min_gpa |-> "3.7",
      skills_preferred |-> << <<"m","a","t","h","e","m","a","t","i","c","s">>, <<"a","n","a","l","y","t","i","c","a","l"," ","t","h","i","n","k","i","n","g">> >>],
     [name |-> "Indian Institute of Technology Bombay",
      major |-> <<"C","o","m","p","u","t","e","r"," ","S","c","i","e","n","c","e">>,
      rank |-> 1,
      location |-> <<"M","u","m","b","a","i",","," ","I","n","d","i","a">>,
      scholarships |-> <<"Institute Scholarship", "Private Grants">>,
      notes |-> "Premier engineering institute in India.",
      min_gpa |-> "3.9",
      skills_preferred |-> << <<"c","o","d","i","n","g">>, <<"a","l","g","o","r","i","t","h","m","s">>, <<"p","r","o","b","l","e","m"," ","s","o","l","v","i","n","g">> >>],
     [name |-> "University of Delhi",
      major |-> <<"H","i","s","t","o","r","y">>,
      rank |-> 50,
      location |-> <<"D","e","l","h","i",","," ","I","n","d","i","a">>,
      scholarships |-> <<"University Grants">>,
      notes |-> "Strong humanities programs.",
      min_gpa |-> "3.0",
      skills_preferred |-> << <<"r","e","s","e","a","r","c","h">>, <<"w","r","i","t","i","n","g">>, <<"c","r","i","t","i","c","a","l"," ","t","h","i","n","k","i","n","g">> >>]
  >>

scholarships ==
  <<
     [name |-> "University Merit Scholarship",
      college |-> <<"T","e","c","h"," ","U","n","i","v","e","r","s","i","t","y">>,
      major |-> <<"A","n","y">>,
      criteria |-> <<"G","P","A"," ","3",".","8","+",","," ","l","e","a","d","e","r","s","h","i","p">>,
      amount |-> "$10,000/year"],
     [name |-> "AI Research Fellowship",
      college |-> <<"T","e","c","h"," ","U","n","i","v","e","r","s","i","t","y">>,
      major |-> <<"C","o","m","p","u","t","e","r"," ","S","c","i","e","n","c","e">>,
      criteria |-> <<"R","e","s","e","a","r","c","h"," ","e","x","p","e","r","i","e","n","c","e"," ","i","n"," ","A","I",","," ","s","t","r","o","n","g"," ","c","o","d","i","n","g"," ","s","k","i","l","l","s">>,
      amount |-> "$5,000 one-time"],
     [name |-> "Global Leader Award",
      college |-> <<"G","l","o","b","a","l"," ","B","u","s","i","n","e","s","s"," ","S","c","h","o","o","l">>,
      major |-> <<"B","u","s","i","n","e","s","s">>,
      criteria |-> <<"E","x","c","e","p","t","i","o","n","a","l"," ","l","e","a","d","e","r","s","h","i","p",","," ","i","n","t","e","r","n","a","t","i","o","n","a","l"," ","e","x","p","e","r","i","e","n","c","e">>,
      amount |-> "$15,000/year"],
     [name |-> "STEM Innovator Grant",
      college |-> <<"N","a","t","i","o","n","a","l"," ","E","n","g","i","n","e","e","r","i","n","g"," ","C","o","l","l","e","g","e">>,
      major |-> <<"E","n","g","i","n","e","e","r","i","n","g">>,
      criteria |-> <<"D","e","m","o","n","s","t","r","a","t","e","d"," ","i","n","n","o","v","a","t","i","o","n"," ","i","n"," ","r","o","b","o","t","i","c","s"," ","o","r"," ","s","u","s","t","a","i","n","a","b","i","l","i","t","y"," ","p","r","o","j","e","c","t","s">>,
      amount |-> "$7,500 one-time"],
     [name |-> "Environmental Champion Grant",
      college |-> <<"G","r","e","e","n"," ","E","a","r","t","h"," ","U","n","i","v","e","r","s","i","t","y">>,
      major |-> <<"E","n","v","i","r","o","n","m","e","n","t","a","l"," ","S","c","i","e","n","c","e">>,
      criteria |-> <<"C","o","m","m","u","n","i","t","y"," ","i","n","v","o","l","v","e","m","e","n","t"," ","i","n"," ","e","n","v","i","r","o","n","m","e","n","t","a","l"," ","c","a","u","s","e","s">>,
      amount |-> "$8,000/year"],
     [name |-> "General Excellence Scholarship",
      college |-> <<"A","n","y">>,
      major |-> <<"A","n","y">>,
      criteria |-> <<"G","P","A"," ","3",".","5","+",","," ","s","t","r","o","n","g"," ","e","s","s","a","y","s">>,
      amount |-> "Varies"],
     [name |-> "Dean's Excellence Award",
      college |-> <<"E","l","i","t","e"," ","T","e","c","h"," ","I","n","s","t","i","t","u","t","e">>,
      major |-> <<"C","o","m","p","u","t","e","r"," ","S","c","i","e","n","c","e">>,
      criteria |-> <<"T","o","p"," ","a","c","a","d","e","m","i","c"," ","p","e","r","f","o","r","m","a","n","c","e",","," ","c","o","m","p","e","t","i","t","i","v","e">>,
      amount |-> "$20,000/year"],
     [name |-> "Indian STEM Scholarship",
      college |-> <<"I","n","d","i","a","n"," ","I","n","s","t","i","t","u","t","e"," ","o","f"," ","T","e","c","h","n","o","l","o","g","y"," ","B","o","m","b","a","y">>,
      major |-> <<"A","n","y"," ","S","T","E","M">>,
      criteria |-> <<"H","i","g","h"," ","s","c","o","r","e","s"," ","i","n"," ","J","E","E"," ","A","d","v","a","n","c","e","d",","," ","r","e","s","e","a","r","c","h"," ","a","p","t","i","t","u","d","e">>,
      amount |-> "Full Tuition"],
     [name |-> "Humanities Research Grant",
      college |-> <<"U","n","i","v","e","r","s","i","t","y"," ","o","f"," ","D","e","l","h","i">>,
      major |-> <<"H","i","s","t","o","r","y">>,
      criteria |-> <<"E","x","c","e","l","l","e","n","t"," ","a","c","a","d","e","m","i","c"," ","r","e","c","o","r","d"," ","i","n"," ","h","u","m","a","n","i","t","i","e","s",","," ","r","e","s","e","a","r","c","h"," ","p","r","o","p","o","s","a","l">>,
      amount |-> "Rs. 50,000 one-time"]
  >>

\* --------------------------------------------------------- tool results
\* Every tool returns a Python str: either a plain message or the JSON
\* encoding of a list of records.
text_result(t) == [json |-> FALSE, text |-> t, list |-> <<>>]

json_dumps(l) == [json |-> TRUE, text |-> <<>>, list |-> l]

NoCollegesMsg ==
  <<"No colleges found matching the criteria in the simulated database. Please try broadening your search or modifying criteria.">>

NoScholarshipsMsg ==
  <<"No scholarships found matching your criteria in the simulated database. Try broadening your search.">>

CollegeLimit == 5
ScholarshipLimit == 3

\* ------------------------------------------------------ get_college_data
\* the inner loop over academic_skills, with its break
skill_match(college, academic_skills) ==
  \E i \in DOMAIN academic_skills :
    list_in(lower(academic_skills[i]),
            [j \in DOMAIN college.skills_preferred |->
               lower(college.skills_preferred[j])])

\* college_kept with the lower rank bound made strict
college_kept_strict_min(college, major, min_rank, max_rank, location_preference, academic_skills) ==
  IF lower(college.major) # lower(major) THEN FALSE
  ELSE IF min_rank # None /\ college.rank <= min_rank[1] THEN FALSE
  ELSE IF max_rank # None /\ college.rank > max_rank[1] THEN FALSE
  ELSE IF truthy(location_preference)
          /\ ~str_in(lower(location_preference[1]), lower(college.location))
       THEN FALSE
  ELSE IF truthy(academic_skills)
       THEN skill_match(college, academic_skills[1])
  ELSE TRUE

\* one iteration of the loop over colleges: FALSE where the code continues
college_kept(college, major, min_rank, max_rank, location_preference, academic_skills) ==
  IF lower(college.major) # lower(major) THEN FALSE
  ELSE IF min_rank # None /\ college.rank < min_rank[1] THEN FALSE
  ELSE IF max_rank # None /\ college.rank > max_rank[1] THEN FALSE
  ELSE IF truthy(location_preference)
          /\ ~str_in(lower(location_preference[1]), lower(college.location))
       THEN FALSE
  ELSE IF truthy(academic_skills)
       THEN skill_match(college, academic_skills[1])
  ELSE TRUE

\* list.sort(key=rank): stable, ascending
insert_by_rank(x, s) ==
  LET k == Cardinality({i \in DOMAIN s : s[i].rank <= x.rank})
  IN  SubSeq(s, 1, k) \o <<x>> \o SubSeq(s, k + 1, Len(s))

RECURSIVE sort_by_rank(_)
sort_by_rank(s) ==
  IF s = <<>> THEN <<>>
  ELSE insert_by_rank(s[Len(s)], sort_by_rank(SubSeq(s, 1, Len(s) - 1)))

\* get_college_data without the `if not results` return
get_college_data_unguarded(major, min_rank, max_rank, location_preference, academic_skills, extra_curriculars) ==
  json_dumps(slice_to(sort_by_rank(
    SelectSeq(colleges,
              LAMBDA c : college_kept(c, major, min_rank, max_rank,
                                      location_preference, academic_skills))),
    CollegeLimit))

get_college_data(major, min_rank, max_rank, location_preference, academic_skills, extra_curriculars) ==
  LET results ==
        SelectSeq(colleges,
                  LAMBDA c : college_kept(c, major, min_rank, max_rank,
                                          location_preference,
                                          academic_skills))
  IN  IF results = <<>> THEN text_result(NoCollegesMsg)
      ELSE json_dumps(slice_to(sort_by_rank(results), CollegeLimit))

\* --------------------------------------------------- search_scholarships
skill_found(scholarship, skills) ==
  \E i \in DOMAIN skills : str_in(lower(skills[i]), lower(scholarship.criteria))

\* scholarship_match without the "any" bypass of the major filter
scholarship_match_major_any(scholarship, college_name, major, academic_profile, skills) ==
  /\ ~(/\ truthy(college_name)
       /\ lower(college_name[1]) # <<"a","n","y">>
       /\ ~str_in(lower(college_name[1]), lower(scholarship.college)))
  /\ ~(/\ truthy(major)
       /\ ~str_in(lower(major[1]), lower(scholarship.major)))
  /\ ~(/\ truthy(academic_profile)
       /\ ~str_in(lower(academic_profile[1]), lower(scholarship.criteria)))
  /\ ~(truthy(skills) /\ ~skill_found(scholarship, skills[1]))

\* one iteration of the loop over scholarships: the final value of match
scholarship_match(scholarship, college_name, major, academic_profile, skills) ==
  /\ ~(/\ truthy(college_name)
       /\ lower(college_name[1]) # <<"a","n","y">>
       /\ ~str_in(lower(college_name[1]), lower(scholarship.college)))
  /\ ~(/\ truthy(major)
       /\ lower(major[1]) # <<"a","n","y">>
       /\ ~str_in(lower(major[1]), lower(scholarship.major)))
  /\ ~(/\ truthy(academic_profile)
       /\ ~str_in(lower(academic_profile[1]), lower(scholarship.criteria)))
  /\ ~(truthy(skills) /\ ~skill_found(scholarship, skills[1]))

search_scholarships(college_name, major, academic_profile, skills) ==
  LET results ==
        SelectSeq(scholarships,
                  LAMBDA s : scholarship_match(s, college_name, major,
                                               academic_profile, skills))
  IN  IF results = <<>> THEN text_result(NoScholarshipsMsg)
      ELSE json_dumps(slice_to(results, ScholarshipLimit))

\* --------------------------------------------------------- validate_input
validate_input(required_info, message_to_user) == text_result(message_to_user)

\* ---------------------------------------------------------------- call_tool
\* A keyword-argument bag is a function from argument names to values.
arg(kwargs, k) == IF k \in DOMAIN kwargs THEN Some(kwargs[k]) ELSE None

returns(v) == [raised |-> FALSE, error |-> "", value |-> v]

raises(e) == [raised |-> TRUE, error |-> e, value |-> text_result(<<>>)]

tool_functions == {"get_college_data", "search_scholarships", "validate_input"}

\* parameter names of each tool's def, and those without a default
parameters(f) ==
  CASE f = "get_college_data" ->
         {"major", "min_rank", "max_rank", "location_preference",
          "academic_skills", "extra_curriculars"}
    [] f = "search_scholarships" ->
         {"college_name", "major", "academic_profile", "skills"}
    [] f = "validate_input" -> {"required_info", "message_to_user"}

required(f) ==
  CASE f = "get_college_data" -> {"major"}
    [] f = "search_scholarships" -> {}
    [] f = "validate_input" -> {"required_info", "message_to_user"}

\* tool_functions[tool_name](**kwargs)
apply_tool(f, kwargs) ==
  IF ~(DOMAIN kwargs \subseteq parameters(f)) \/ ~(required(f) \subseteq DOMAIN kwargs)
  THEN raises("TypeError")
  ELSE CASE f = "get_college_data" ->
              returns(get_college_data(kwargs["major"],
                                       arg(kwargs, "min_rank"),
                                       arg(kwargs, "max_rank"),
                                       arg(kwargs, "location_preference"),
                                       arg(kwargs, "academic_skills"),
                                       arg(kwargs, "extra_curriculars")))
         [] f = "search_scholarships" ->
              returns(search_scholarships(arg(kwargs, "college_name"),
                                          arg(kwargs, "major"),
                                          arg(kwargs, "academic_profile"),
                                          arg(kwargs, "skills")))
         [] f = "validate_input" ->
              returns(validate_input(kwargs["required_info"],
                                     kwargs["message_to_user"]))

tool_not_found(tool_name) == <<"Error: Tool '", tool_name, "' not found.">>

\* call_tool(tool_name, **tool_args): the keyword "tool_name" collides with
\* the positional parameter of the same name before the body runs
call_tool(tool_name, kwargs) ==
  IF "tool_name" \in DOMAIN kwargs THEN raises("TypeError")
  ELSE IF tool_name \in tool_functions THEN apply_tool(tool_name, kwargs)
  ELSE returns(text_result(tool_not_found(tool_name)))

\* ------------------------------------------------- messages and the session
Greeting ==
  <<"Hello! I'm your AI College Recommender. Tell me about your academic interests, skills, desired major, preferred college rank, or anything else to help me find the best institutes for you.">>

ResetGreeting == <<"Chat has been reset! How can I help you today?">>

apology(e) ==
  <<"I apologize, I encountered an error: ", e,
    ". Please try again or rephrase your request.">>

\* an entry of chat_history: {"role": role, "parts": [text]}
message(role, text) == [role |-> role, parts |-> <<text>>]

EmptyArgs == [k \in {} |-> None]
NoCall == [name |-> "", args |-> EmptyArgs]
NoResponse == [name |-> "", result |-> text_result(<<>>)]
NoOutput == text_result(<<>>)
NoError == ""

\* a Part of a Gemini Content: text, function_call or function_response
text_part(t) ==
  [text |-> t, function_call |-> NoCall, function_response |-> NoResponse]

function_call_part(name, args) ==
  [text |-> <<>>, function_call |-> [name |-> name, args |-> args],
   function_response |-> NoResponse]

function_response_part(name, result) ==
  [text |-> <<>>, function_call |-> NoCall,
   function_response |-> [name |-> name, result |-> result]]

content(role, parts) == [role |-> role, parts |-> parts]

\* a chat_history entry as the session holds it
to_content(m) == content(m.role, <<text_part(m.parts[1])>>)

\* model.start_chat(history=[])
start_chat(id) == [id |-> id, history |-> <<>>]

\* --------------------------------------------------- inputs of the model
Str_computer_science ==
  <<"c","o","m","p","u","t","e","r"," ","s","c","i","e","n","c","e">>
Str_Computer_Science ==
  <<"C","o","m","p","u","t","e","r"," ","S","c","i","e","n","c","e">>
Str_Philosophy == <<"P","h","i","l","o","s","o","p","h","y">>
Str_FINE_ARTS == <<"F","I","N","E"," ","A","R","T","S">>
Str_History == <<"H","i","s","t","o","r","y">>
Str_stem == <<"s","t","e","m">>
Str_Any == <<"A","n","y">>
Str_any == <<"a","n","y">>
Str_Tech_University ==
  <<"T","e","c","h"," ","U","n","i","v","e","r","s","i","t","y">>
Str_tech == <<"t","e","c","h">>
Str_Oxford == <<"O","x","f","o","r","d">>
Str_empty == <<>>
Str_india == <<"i","n","d","i","a">>
Str_USA == <<"U","S","A">>
Str_Mars == <<"M","a","r","s">>
Str_CODING == <<"C","O","D","I","N","G">>
Str_cod == <<"c","o","d">>
Str_painting == <<"p","a","i","n","t","i","n","g">>
Str_Research == <<"R","e","s","e","a","r","c","h">>
Str_robotics == <<"r","o","b","o","t","i","c","s">>
Str_music == <<"m","u","s","i","c">>
Str_gpa == <<"g","p","a">>
Str_leadership == <<"l","e","a","d","e","r","s","h","i","p">>
Str_essays == <<"e","s","s","a","y","s">>
Str_major == <<"m","a","j","o","r">>

UserQueries == {<<"I want to study Computer Science">>}
TextReplies == {<<"Here are some colleges.">>}
GatewayErrors == {"503 service unavailable"}
AskMajor == <<"Which major are you interested in?">>

\* the keyword arguments of a call, from a record of optional values
bag(o) == [k \in {j \in DOMAIN o : o[j] # None} |-> o[k][1]]

\* function calls the model may request during a conversation
Requests ==
  { [name |-> "get_college_data",
     args |-> [major |-> Str_computer_science, max_rank |-> 5]],
    [name |-> "get_college_data", args |-> [major |-> Str_Philosophy]],
    [name |-> "get_college_data", args |-> [min_rank |-> 1]],
    [name |-> "search_scholarships",
     args |-> [college_name |-> Str_Tech_University]],
    [name |-> "validate_input",
     args |-> [required_info |-> <<Str_major>>, message_to_user |-> AskMajor]],
    [name |-> "get_tuition_fees", args |-> [college_name |-> Str_Oxford]],
    [name |-> "get_tuition_fees", args |-> [tool_name |-> Str_Oxford]] }

\* replies of the service: a text part, a function call, or no part at all
Responses ==
  {content("model", <<text_part(t)>>) : t \in TextReplies}
  \cup {content("model", <<function_call_part(r.name, r.args)>>) : r \in Requests}
  \cup {content("model", <<>>)}

\* replies to the function response: text, no part, or one more function call
FollowupResponses ==
  {content("model", <<text_part(t)>>) : t \in TextReplies}
  \cup {content("model", <<function_call_part("search_scholarships", EmptyArgs)>>)}
  \cup {content("model", <<>>)}

has_function_call(response) ==
  response.parts # <<>> /\ response.parts[1].function_call # NoCall

has_text(response) ==
  response.parts # <<>> /\ response.parts[1].text # <<>>

\* ------------------------------------------------------------------- Init
Init ==
  /\ chat_history = <<message("model", Greeting)>>
  /\ chat_history_ref = 1
  /\ chat_session =
       [start_chat(2) EXCEPT !.history = <<to_content(message("model", Greeting))>>]
  /\ next_obj = 3
  /\ pc = "Idle"
  /\ function_call = NoCall
  /\ tool_output = NoOutput
  /\ raised = NoError
  /\ sends = 0
  /\ dispatches = 0
  /\ send_session = 0
  /\ turn_start = 0
  /\ turns = 0
  /\ resets = 0

\* ------------------------------------------------------- the turn handler
\* except_handler with an apology that leaves the error text out
except_handler_generic(e) ==
  /\ chat_history' = Append(chat_history, message("model", apology("")))
  /\ raised' = e
  /\ pc' = "Idle"

\* except Exception as e: the apology is appended and the turn ends
except_handler(e) ==
  /\ chat_history' = Append(chat_history, message("model", apology(e)))
  /\ raised' = e
  /\ pc' = "Idle"

\* if user_query: append it and call send_message(user_query)
UserMessage ==
  /\ pc = "Idle"
  /\ turns < MaxTurns
  /\ \E user_query \in UserQueries :
       chat_history' = Append(chat_history, message("user", user_query))
  /\ turn_start' = Len(chat_history)
  /\ turns' = turns + 1
  /\ sends' = 1
  /\ send_session' = chat_session.id
  /\ dispatches' = 0
  /\ function_call' = NoCall
  /\ tool_output' = NoOutput
  /\ raised' = NoError
  /\ pc' = "AwaitingModelReply"
  /\ UNCHANGED <<chat_history_ref, chat_session, next_obj, resets>>

\* the content of the send_message call in flight
user_content == to_content(chat_history[Len(chat_history)])

\* send_message(user_query) raises; the session may or may not have
\* recorded the message it failed to deliver
GatewayFails ==
  /\ pc = "AwaitingModelReply"
  /\ \E e \in GatewayErrors, keep \in BOOLEAN :
       /\ chat_session' =
            [chat_session EXCEPT
               !.history = IF keep THEN Append(@, user_content) ELSE @]
       /\ except_handler(e)
  /\ UNCHANGED <<chat_history_ref, next_obj, function_call, tool_output,
                 sends, dispatches, send_session, turn_start, turns, resets>>

\* DirectReply that shows the reply without appending it to chat_history
DirectReply_unlogged ==
  /\ pc = "AwaitingModelReply"
  /\ \E response \in Responses :
       /\ ~has_function_call(response)
       /\ chat_session' =
            [chat_session EXCEPT !.history = @ \o <<user_content, response>>]
       /\ IF has_text(response)
          THEN /\ pc' = "Idle"
               /\ UNCHANGED <<chat_history, raised>>
          ELSE except_handler("ValueError")
  /\ UNCHANGED <<chat_history_ref, next_obj, function_call, tool_output,
                 sends, dispatches, send_session, turn_start, turns, resets>>

\* the reply carries no function call: response.text is shown and appended,
\* or raises when the reply has no text
DirectReply ==
  /\ pc = "AwaitingModelReply"
  /\ \E response \in Responses :
       /\ ~has_function_call(response)
       /\ chat_session' =
            [chat_session EXCEPT !.history = @ \o <<user_content, response>>]
       /\ IF has_text(response)
          THEN /\ chat_history' =
                    Append(chat_history,
                           message("model", response.parts[1].text))
               /\ pc' = "Idle"
               /\ UNCHANGED raised
          ELSE except_handler("ValueError")
  /\ UNCHANGED <<chat_history_ref, next_obj, function_call, tool_output,
                 sends, dispatches, send_session, turn_start, turns, resets>>

\* response.parts[0].function_call is set
ToolRequested ==
  /\ pc = "AwaitingModelReply"
  /\ \E response \in Responses :
       /\ has_function_call(response)
       /\ chat_session' =
            [chat_session EXCEPT !.history = @ \o <<user_content, response>>]
       /\ function_call' = response.parts[1].function_call
  /\ pc' = "ToolRequested"
  /\ UNCHANGED <<chat_history, chat_history_ref, next_obj, tool_output, raised,
                 sends, dispatches, send_session, turn_start, turns, resets>>

\* Dispatch that never sends the tool output back
Dispatch_unsent ==
  /\ pc = "ToolRequested"
  /\ dispatches' = dispatches + 1
  /\ LET out == call_tool(function_call.name, function_call.args)
     IN  IF out.raised
         THEN /\ except_handler(out.error)
              /\ UNCHANGED <<tool_output, sends, send_session>>
         ELSE /\ tool_output' = out.value
              /\ pc' = "AwaitingFollowupReply"
              /\ UNCHANGED <<chat_history, raised, sends, send_session>>
  /\ UNCHANGED <<chat_history_ref, chat_session, next_obj, function_call,
                 turn_start, turns, resets>>

\* tool_output = call_tool(tool_name, **tool_args), then the function
\* response is sent back with send_message
Dispatch ==
  /\ pc = "ToolRequested"
  /\ dispatches' = dispatches + 1
  /\ LET out == call_tool(function_call.name, function_call.args)
     IN  IF out.raised
         THEN /\ except_handler(out.error)
              /\ UNCHANGED <<tool_output, sends, send_session>>
         ELSE /\ tool_output' = out.value
              /\ sends' = sends + 1
              /\ send_session' = chat_session.id
              /\ pc' = "AwaitingFollowupReply"
              /\ UNCHANGED <<chat_history, raised>>
  /\ UNCHANGED <<chat_history_ref, chat_session, next_obj, function_call,
                 turn_start, turns, resets>>

function_response_content ==
  content("user", <<function_response_part(function_call.name, tool_output)>>)

\* the follow-up send_message raises
FollowupFails ==
  /\ pc = "AwaitingFollowupReply"
  /\ \E e \in GatewayErrors, keep \in BOOLEAN :
       /\ chat_session' =
            [chat_session EXCEPT
               !.history = IF keep THEN Append(@, function_response_content)
                           ELSE @]
       /\ except_handler(e)
  /\ UNCHANGED <<chat_history_ref, next_obj, function_call, tool_output,
                 sends, dispatches, send_session, turn_start, turns, resets>>

\* the follow-up reply arrives; chat_session.last.candidates[0].content.text
\* yields the final text or raises (always when the reply has no text)
FollowupReply ==
  /\ pc = "AwaitingFollowupReply"
  /\ \E response \in FollowupResponses, extracted \in BOOLEAN :
       /\ chat_session' =
            [chat_session EXCEPT
               !.history = @ \o <<function_response_content, response>>]
       /\ IF has_text(response) /\ extracted
          THEN /\ chat_history' =
                    Append(chat_history,
                           message("model", response.parts[1].text))
               /\ pc' = "Idle"
               /\ UNCHANGED raised
          ELSE except_handler("AttributeError")
  /\ UNCHANGED <<chat_history_ref, next_obj, function_call, tool_output,
                 sends, dispatches, send_session, turn_start, turns, resets>>

\* Reset that clears the existing list and session instead of replacing them
Reset_in_place ==
  /\ pc = "Idle"
  /\ resets < MaxResets
  /\ chat_history' = <<message("model", ResetGreeting)>>
  /\ chat_session' = [chat_session EXCEPT !.history = <<>>]
  /\ resets' = resets + 1
  /\ function_call' = NoCall
  /\ tool_output' = NoOutput
  /\ raised' = NoError
  /\ sends' = 0
  /\ dispatches' = 0
  /\ turn_start' = 0
  /\ UNCHANGED <<chat_history_ref, next_obj, pc, send_session, turns>>

\* if st.button("Reset Chat"): a new list, a new session, the reset
\* greeting, and a rerun of the script
Reset ==
  /\ pc = "Idle"
  /\ resets < MaxResets
  /\ chat_history' = <<message("model", ResetGreeting)>>
  /\ chat_history_ref' = next_obj
  /\ chat_session' = start_chat(next_obj + 1)
  /\ next_obj' = next_obj + 2
  /\ resets' = resets + 1
  /\ function_call' = NoCall
  /\ tool_output' = NoOutput
  /\ raised' = NoError
  /\ sends' = 0
  /\ dispatches' = 0
  /\ turn_start' = 0
  /\ UNCHANGED <<pc, send_session, turns>>

Next ==
  \/ UserMessage
  \/ GatewayFails
  \/ DirectReply
  \/ ToolRequested
  \/ Dispatch
  \/ FollowupFails
  \/ FollowupReply
  \/ Reset

Spec == Init /\ [][Next]_vars

\* ------------------------------------------- the tools on their own inputs
OptMajors ==
  {None, Some(Str_computer_science), Some(Str_Computer_Science),
   Some(Str_Philosophy), Some(Str_FINE_ARTS), Some(Str_History)}
OptMinRanks == {None, Some(2), Some(6)}
OptMaxRanks == {None, Some(1), Some(5)}
OptLocations ==
  {None, Some(Str_empty), Some(Str_india), Some(Str_USA), Some(Str_Mars)}
OptAcademicSkills ==
  {None, Some(<<>>), Some(<<Str_CODING, Str_painting>>), Some(<<Str_cod>>),
   Some(<<Str_Research>>)}
OptExtraCurriculars == {None, Some(<<Str_music>>)}

CollegeQueries ==
  {bag(o) : o \in [major : OptMajors, min_rank : OptMinRanks,
                   max_rank : OptMaxRanks, location_preference : OptLocations,
                   academic_skills : OptAcademicSkills,
                   extra_curriculars : OptExtraCurriculars]}

OptCollegeNames ==
  {None, Some(Str_Tech_University), Some(Str_any), Some(Str_Any),
   Some(Str_tech), Some(Str_Oxford)}
OptScholarshipMajors ==
  {None, Some(Str_Any), Some(Str_computer_science), Some(Str_stem),
   Some(Str_History)}
OptProfiles == {None, Some(Str_gpa), Some(Str_Research), Some(Str_leadership)}
OptSkills ==
  {None, Some(<<>>), Some(<<Str_robotics, Str_CODING>>), Some(<<Str_essays>>)}

ScholarshipQueries ==
  {bag(o) : o \in [college_name : OptCollegeNames,
                   major : OptScholarshipMajors,
                   academic_profile : OptProfiles, skills : OptSkills]}

ToolRequests ==
  {[name |-> "get_college_data", args |-> a] : a \in CollegeQueries}
  \cup {[name |-> "search_scholarships", args |-> a] : a \in ScholarshipQueries}
  \cup Requests

\* the first turn of a conversation, at the point where the model's reply
\* has asked for a tool
InitTools ==
  \E user_query \in UserQueries, r \in ToolRequests :
    /\ chat_history =
         <<message("model", Greeting), message("user", user_query)>>
    /\ chat_history_ref = 1
    /\ chat_session =
         [start_chat(2) EXCEPT
            !.history = <<to_content(message("model", Greeting)),
                          to_content(message("user", user_query)),
                          content("model", <<function_call_part(r.name, r.args)>>)>>]
    /\ next_obj = 3
    /\ pc = "ToolRequested"
    /\ function_call = r
    /\ tool_output = NoOutput
    /\ raised = NoError
    /\ sends = 1
    /\ dispatches = 0
    /\ send_session = 2
    /\ turn_start = 1
    /\ turns = 1
    /\ resets = 0

NextTools == Dispatch

SpecTools == InitTools /\ [][NextTools]_vars

\* ------------------------------------------------------------------ claims
dispatched == pc = "AwaitingFollowupReply"

names_of(l) == [i \in DOMAIN l |-> l[i].name]

min_of(a, b) == IF a < b THEN a ELSE b

\* The filter of findColleges as the specification words it.
CollegePasses(c, a) ==
  /\ lower(c.major) = lower(a.major)
  /\ ("min_rank" \notin DOMAIN a \/ c.rank >= a.min_rank)
  /\ ("max_rank" \notin DOMAIN a \/ c.rank <= a.max_rank)
  /\ \/ "location_preference" \notin DOMAIN a
     \/ str_in(lower(a.location_preference), lower(c.location))
  /\ \/ "academic_skills" \notin DOMAIN a
     \/ a.academic_skills = <<>>
     \/ \E i \in DOMAIN a.academic_skills, j \in DOMAIN c.skills_preferred :
          lower(a.academic_skills[i]) = lower(c.skills_preferred[j])

PassingColleges(a) == {i \in DOMAIN colleges : CollegePasses(colleges[i], a)}

\* The filter of findScholarships as the specification words it.
ScholarshipPasses(s, a) ==
  /\ \/ "college_name" \notin DOMAIN a
     \/ lower(a.college_name) = Str_any
     \/ str_in(lower(a.college_name), lower(s.college))
  /\ \/ "major" \notin DOMAIN a
     \/ lower(a.major) = Str_any
     \/ str_in(lower(a.major), lower(s.major))
  /\ \/ "academic_profile" \notin DOMAIN a
     \/ str_in(lower(a.academic_profile), lower(s.criteria))
  /\ \/ "skills" \notin DOMAIN a
     \/ a.skills = <<>>
     \/ \E i \in DOMAIN a.skills : str_in(lower(a.skills[i]), lower(s.criteria))

PassingScholarships(a) ==
  {i \in DOMAIN scholarships : ScholarshipPasses(scholarships[i], a)}

\* C4: whenever get_college_data is called with a major and at least one
\* record passes the specified filter, the result is a JSON list holding
\* min(5, number passing) distinct passing records in ascending rank order,
\* every passing record left out ranks no better than every record returned,
\* the result is the same as without extra_curriculars, and
\* major="Computer Science", max_rank=5 gives IIT Bombay, Elite Tech
\* Institute, Tech University in that order.
C4_CollegesTopFiveByRank ==
  (dispatched /\ function_call.name = "get_college_data") =>
    LET a == function_call.args
        P == PassingColleges(a)
        r == tool_output.list
    IN  P # {} =>
          /\ tool_output.json
          /\ Len(r) = min_of(Cardinality(P), CollegeLimit)
          /\ \A k \in DOMAIN r : \E i \in P : colleges[i] = r[k]
          /\ \A j, k \in DOMAIN r : j < k =>
               r[j] # r[k] /\ r[j].rank <= r[k].rank
          /\ \A i \in P :
               (\A k \in DOMAIN r : r[k] # colleges[i]) =>
                 \A k \in DOMAIN r : r[k].rank <= colleges[i].rank
          /\ tool_output =
               get_college_data(a.major, arg(a, "min_rank"), arg(a, "max_rank"),
                                arg(a, "location_preference"),
                                arg(a, "academic_skills"), None)
          /\ a = [major |-> Str_Computer_Science, max_rank |-> 5] =>
               names_of(r) = <<"Indian Institute of Technology Bombay",
                               "Elite Tech Institute", "Tech University">>

\* get_college_data has returned the three Computer Science colleges of
\* rank at most 5 for a query that also carried extra_curriculars
C4_Witness ==
  /\ dispatched
  /\ function_call.name = "get_college_data"
  /\ function_call.args =
       [major |-> Str_computer_science, max_rank |-> 5,
        academic_skills |-> <<Str_CODING, Str_painting>>,
        extra_curriculars |-> <<Str_music>>]
  /\ tool_output.json
  /\ Len(tool_output.list) = 3

\* C5: whenever search_scholarships is called and at least one record
\* passes the specified filter, the result is a JSON list holding the first
\* min(3, number passing) passing records in scan order, and
\* college_name="Tech University" alone gives University Merit Scholarship
\* and AI Research Fellowship, both of Tech University.
C5_ScholarshipsFirstThree ==
  (dispatched /\ function_call.name = "search_scholarships") =>
    LET a == function_call.args
        P == PassingScholarships(a)
        r == tool_output.list
    IN  P # {} =>
          /\ tool_output.json
          /\ Len(r) = min_of(Cardinality(P), ScholarshipLimit)
          /\ \A k \in DOMAIN r :
               \E i \in P : /\ scholarships[i] = r[k]
                            /\ Cardinality({j \in P : j < i}) = k - 1
          /\ a = [college_name |-> Str_Tech_University] =>
               /\ names_of(r) = <<"University Merit Scholarship",
                                  "AI Research Fellowship">>
               /\ \A k \in DOMAIN r : r[k].college = Str_Tech_University

\* search_scholarships has cut a result of more than three passing records
C5_Witness ==
  /\ dispatched
  /\ function_call.name = "search_scholarships"
  /\ Cardinality(PassingScholarships(function_call.args)) > ScholarshipLimit
  /\ "major" \in DOMAIN function_call.args
  /\ Len(tool_output.list) = ScholarshipLimit

\* C6: no tool call returns an empty JSON list; a college query that passes
\* no record returns the college no-results message and a scholarship query
\* that passes no record returns the scholarship no-results message.
C6_NoEmptyList ==
  dispatched =>
    /\ ~(tool_output.json /\ tool_output.list = <<>>)
    /\ (function_call.name = "get_college_data"
        /\ PassingColleges(function_call.args) = {}) =>
         tool_output = text_result(NoCollegesMsg)
    /\ (function_call.name = "search_scholarships"
        /\ PassingScholarships(function_call.args) = {}) =>
         tool_output = text_result(NoScholarshipsMsg)

\* get_college_data has answered a Philosophy query
C6_Witness ==
  /\ dispatched
  /\ function_call.name = "get_college_data"
  /\ function_call.args = [major |-> Str_Philosophy]
  /\ tool_output = text_result(NoCollegesMsg)

\* C7: a scholarship whose college is "Any" is never excluded by the college
\* filter and one whose major is "Any" is never excluded by the major filter:
\* when such a record passes the remaining filters the result is a list, and
\* a list shorter than the limit holds that record.
OtherFiltersPass(s, a, field) ==
  ScholarshipPasses(s, [k \in DOMAIN a \ {field} |-> a[k]])

C7_AnySentinelUnrestricted ==
  (dispatched /\ function_call.name = "search_scholarships") =>
    LET a == function_call.args
        r == tool_output.list
    IN  \A i \in DOMAIN scholarships :
          LET s == scholarships[i]
              unrestricted ==
                \/ s.college = Str_Any /\ OtherFiltersPass(s, a, "college_name")
                \/ s.major = Str_Any /\ OtherFiltersPass(s, a, "major")
          IN  unrestricted =>
                /\ tool_output.json
                /\ (Len(r) < ScholarshipLimit => list_in(s, r))

\* ------------------------------------------------- claims about the turn
idle == pc = "Idle"

tool_turn == function_call # NoCall

last(l) == l[Len(l)]

\* C1 as stated: every turn whose first reply carries a function call has
\* made exactly one call_tool call and exactly two send_message calls when
\* it is back at Idle, whatever tool name and arguments were requested.
C1_OneDispatchTwoSends ==
  (idle /\ tool_turn) => (dispatches = 1 /\ sends = 2)

\* C1 amended: in a turn whose first reply carries a function call,
\* call_tool is called exactly once; when that call returns, send_message is
\* called a second time and the turn has made exactly two sends; when it
\* raises, the turn ends at Idle with only the first send; the follow-up
\* steps make no further call, and a turn without a function call makes no
\* dispatch.
C1_OneDispatchSendsIfReturned ==
  /\ [](dispatches <= 1 /\ sends <= 2)
  /\ [](pc = "ToolRequested" => (tool_turn /\ dispatches = 0 /\ sends = 1))
  /\ [][(pc = "ToolRequested" /\ pc' # pc) =>
          /\ dispatches' = 1
          /\ \/ pc' = "AwaitingFollowupReply" /\ raised' = NoError /\ sends' = 2
             \/ pc' = "Idle" /\ raised' # NoError /\ sends' = 1]_vars
  /\ [][pc = "AwaitingFollowupReply" =>
          (sends' = sends /\ dispatches' = dispatches)]_vars
  /\ []((idle /\ tool_turn) => (dispatches = 1 /\ sends \in {1, 2}))
  /\ []((idle /\ ~tool_turn) => dispatches = 0)

\* a tool turn has ended normally after one dispatch and two sends
C1_Witness ==
  /\ idle /\ tool_turn
  /\ raised = NoError
  /\ dispatches = 1
  /\ sends = 2
  /\ last(chat_history).role = "model"

\* C2: the step on which an exception is raised appends exactly the apology
\* embedding the error text, makes no send_message call and ends the turn at
\* Idle; a turn ended by an exception has added the user message and the
\* apology and nothing else.
C2_ExceptionEndsTurn ==
  /\ [][(raised = NoError /\ raised' # NoError) =>
          /\ pc' = "Idle"
          /\ chat_history' =
               Append(chat_history, message("model", apology(raised')))
          /\ list_in(raised', last(chat_history').parts[1])
          /\ sends' = sends]_vars
  /\ [](idle /\ raised # NoError =>
          /\ Len(chat_history) = turn_start + 2
          /\ chat_history[turn_start + 1].role = "user"
          /\ last(chat_history) = message("model", apology(raised)))

\* a tool call raised and the turn ended with the apology
C2_Witness ==
  /\ idle
  /\ raised = "TypeError"
  /\ dispatches = 1
  /\ sends = 1
  /\ last(chat_history) = message("model", apology("TypeError"))

\* C3: once a tool name outside the three registered names has been
\* dispatched, whatever its arguments, call_tool has returned the error
\* string containing that name and the follow-up send_message has been made.
C3_UnknownToolForwarded ==
  (tool_turn /\ function_call.name \notin tool_functions /\ dispatches > 0) =>
    /\ ~tool_output.json
    /\ list_in(function_call.name, tool_output.text)
    /\ sends = 2

\* C8: a Reset step binds chat_history to a list object that did not exist
\* before, holding only the reset greeting, and chat_session to a session
\* object that did not exist before, with empty history; every send_message
\* in flight is addressed to the current session.
C8_ResetReplaces ==
  /\ [][resets' # resets =>
          /\ chat_history' = <<message("model", ResetGreeting)>>
          /\ chat_history_ref' >= next_obj
          /\ chat_session'.id >= next_obj
          /\ chat_session'.id # chat_history_ref'
          /\ chat_session'.history = <<>>
          /\ next_obj' > chat_history_ref' /\ next_obj' > chat_session'.id
          /\ pc' = "Idle"]_vars
  /\ [](chat_history_ref < next_obj /\ chat_session.id < next_obj)
  /\ [](pc \in {"AwaitingModelReply", "AwaitingFollowupReply"} =>
          send_session = chat_session.id)

\* a user turn is under way after a reset that followed an earlier turn
C8_Witness ==
  /\ resets > 0
  /\ turns > 1
  /\ pc = "AwaitingModelReply"
  /\ Len(chat_history) = 2
  /\ send_session = chat_session.id

\* a is a subsequence of b
RECURSIVE is_subsequence(_, _)
is_subsequence(a, b) ==
  IF a = <<>> THEN TRUE
  ELSE IF b = <<>> THEN FALSE
  ELSE IF a[1] = b[1] THEN is_subsequence(Tail(a), Tail(b))
  ELSE is_subsequence(a, Tail(b))

\* C9: when send_message is called with the user's message, every message
\* appended to chat_history before that turn is held, in order, by the
\* session the message is sent to.
C9_SessionHoldsFullHistory ==
  pc = "AwaitingModelReply" =>
    is_subsequence([i \in 1..turn_start |-> to_content(chat_history[i])],
                   chat_session.history)

\* C10: chat_history is never empty and starts with a model message; no two
\* consecutive messages have the same role; at Idle it ends with a model
\* message, and a finished turn has added exactly one user message followed
\* by exactly one model message; inside a turn only the user message has
\* been added.
C10_HistoryAlternates ==
  /\ Len(chat_history) >= 1
  /\ chat_history[1].role = "model"
  /\ \A i \in 1..(Len(chat_history) - 1) :
       chat_history[i].role # chat_history[i + 1].role
  /\ \A i \in DOMAIN chat_history : chat_history[i].role \in {"user", "model"}
  /\ idle => last(chat_history).role = "model"
  /\ (idle /\ sends > 0) => Len(chat_history) = turn_start + 2
  /\ ~idle => /\ Len(chat_history) = turn_start + 1
              /\ last(chat_history).role = "user"

\* two turns have finished, the first by an exception and the second by a
\* reply after a tool call
C10_Witness ==
  /\ idle
  /\ turns = 2
  /\ Len(chat_history) = 5
  /\ tool_turn /\ raised = NoError
  /\ \E e \in GatewayErrors : chat_history[3] = message("model", apology(e))
====
